---------------------------- MODULE Spec2Model ----------------------------
(***************************************************************************)
(* NutriTailor AI backend (src/main.py): the rule-based reply generator,   *)
(* the chat / messages handlers with their message log, and the product    *)
(* listing with its seed-on-empty routine.                                 *)
(*                                                                         *)
(* Python strings that the code searches (request messages, session ids)   *)
(* are sequences of one-character strings; the fixed reply fragments are   *)
(* TLA+ strings, joined with \o.  The two non-ASCII dashes of the source   *)
(* fragments (U+2013 in "25-35g", U+2011 in "7-day") are written "-".      *)
(***************************************************************************)
EXTENDS Integers, Sequences, FiniteSets, TLC

VARIABLES
    db,          \* database.db as imported by main.py: None or the handle
    message,     \* collection "message": documents in insertion order
    product,     \* collection "product": documents in insertion order
    next_oid,    \* next _id the store hands out
    pc,          \* per request handler: position in its endpoint function
    request,     \* per request handler: the request being served
    session_id,  \* chat local `session_id`
    reply,       \* chat local `reply`
    products,    \* list_products local `products`
    created,     \* per handler: values returned by its create_document calls
    response,    \* per request handler: what the caller receives
    user_text,   \* generate_nutrition_reply argument (direct call)
    parts,       \* generate_nutrition_reply local `parts`
    result,      \* generate_nutrition_reply return value
    gpc          \* position of the direct call: "call" or "returned"

vars == <<db, message, product, next_oid, pc, request, session_id, reply,
          products, created, response, user_text, parts, result, gpc>>

storeVars == <<db, message, product, next_oid>>
handlerVars == <<pc, request, session_id, reply, products, created, response>>
replyVars == <<user_text, parts, result, gpc>>

\* Python None where a string or a list may stand: a one-element sequence that
\* is no string (a string's elements are single characters) and no document list
None == <<"None">>

\* a string-valued local that is not assigned yet
Unset == "<unset>"

\* a handler that holds no request / has sent no response yet
NoRequest == [op |-> "none"]
NoResponse == [status |-> 0]

-----------------------------------------------------------------------------
(* Bounds *)

\* number of pieces concatenated into an input text of the reply generator
MaxPieces == 2

\* number of concurrent request handlers (threadpool workers serving a request)
NumChat == 2

\* number of concurrent list_products handlers
NumList == 2

\* largest limit a get_messages request carries
MaxLimit == 2

-----------------------------------------------------------------------------
(* Python string helpers *)

UpperChars ==
    <<"A", "B", "C", "D", "E", "F", "G", "H", "I", "J", "K", "L", "M",
      "N", "O", "P", "Q", "R", "S", "T", "U", "V", "W", "X", "Y", "Z">>

LowerChars ==
    <<"a", "b", "c", "d", "e", "f", "g", "h", "i", "j", "k", "l", "m",
      "n", "o", "p", "q", "r", "s", "t", "u", "v", "w", "x", "y", "z">>

\* str.lower() on one character
LowerChar(c) ==
    IF \E i \in 1..Len(UpperChars) : UpperChars[i] = c
    THEN LowerChars[CHOOSE i \in 1..Len(UpperChars) : UpperChars[i] = c]
    ELSE c

\* str.lower()
Lower(s) == [i \in 1..Len(s) |-> LowerChar(s[i])]

\* Python `k in text` on strings: k occurs as a contiguous substring
Contains(text, k) ==
    \E i \in 1..(Len(text) - Len(k) + 1) : SubSeq(text, i, i + Len(k) - 1) = k

\* Python any(k in text for k in ks)
AnyIn(text, ks) == \E j \in 1..Len(ks) : Contains(text, ks[j])

Whitespace == {" ", "\t", "\n"}

\* str.strip(): drop leading and trailing whitespace
RECURSIVE LStrip(_)
LStrip(s) ==
    IF s # <<>> /\ Head(s) \in Whitespace THEN LStrip(Tail(s)) ELSE s

RECURSIVE RStrip(_)
RStrip(s) ==
    IF s # <<>> /\ s[Len(s)] \in Whitespace
    THEN RStrip(SubSeq(s, 1, Len(s) - 1))
    ELSE s

Strip(s) == RStrip(LStrip(s))

\* sep.join(xs) on a list of strings
RECURSIVE Join(_, _)
Join(sep, xs) ==
    IF xs = <<>> THEN ""
    ELSE IF Len(xs) = 1 THEN xs[1]
    ELSE xs[1] \o sep \o Join(sep, Tail(xs))

-----------------------------------------------------------------------------
(* generate_nutrition_reply, src/main.py:142-175 *)

KwWeightLoss ==
    << <<"w", "e", "i", "g", "h", "t", " ", "l", "o", "s", "s">>,
       <<"l", "o", "s", "e", " ", "w", "e", "i", "g", "h", "t">>,
       <<"f", "a", "t", " ", "l", "o", "s", "s">> >>

KwMuscleGain ==
    << <<"m", "u", "s", "c", "l", "e">>,
       <<"g", "a", "i", "n", " ", "w", "e", "i", "g", "h", "t">>,
       <<"b", "u", "l", "k">> >>

KwEnergy ==
    << <<"e", "n", "e", "r", "g", "y">>,
       <<"t", "i", "r", "e", "d">>,
       <<"f", "a", "t", "i", "g", "u", "e">> >>

KwGutHealth ==
    << <<"i", "b", "s">>,
       <<"g", "u", "t">>,
       <<"b", "l", "o", "a", "t">> >>

KwBreakfast == <<"b", "r", "e", "a", "k", "f", "a", "s", "t">>
KwVegan == <<"v", "e", "g", "a", "n">>
KwMealPlan == <<"m", "e", "a", "l", " ", "p", "l", "a", "n">>
KwPlan == <<"p", "l", "a", "n">>

FragOpening == "Thanks for sharing. I'm your AI nutritional therapist."

FragGeneral ==
    "General guidance: focus on whole foods, 25-35g protein per meal, plenty of colorful veg, and hydrate."

FragBreakfast ==
    "For breakfast, try Greek yogurt with berries and nuts, or eggs with spinach and wholegrain toast."

FragVegan ==
    "For a vegan approach, prioritize legumes, tofu/tempeh, whole grains, seeds, and B12-fortified foods."

FragMealPlan ==
    "I can also create a tailored 7-day meal plan if you share preferences, allergies, and budget."

FragClosing ==
    "Would you like me to estimate your daily calorie target and macros based on age, height, weight, sex, activity?"

\* f"I detect goals around {', '.join(goals)}."
FragGoals(goals) == "I detect goals around " \o Join(", ", goals) \o "."

\* detect_goals with the energy test moved in front of the weight-loss test
detect_goals_energy_first(text) ==
    LET g0 == <<>>
        g1 == IF AnyIn(text, KwEnergy) THEN Append(g0, "energy") ELSE g0
        g2 == IF AnyIn(text, KwWeightLoss) THEN Append(g1, "weight loss") ELSE g1
        g3 == IF AnyIn(text, KwMuscleGain) THEN Append(g2, "muscle gain") ELSE g2
        g4 == IF AnyIn(text, KwGutHealth) THEN Append(g3, "gut health") ELSE g3
    IN  g4

\* lines 144-152: the four `if any(...): goals.append(...)` in sequence
detect_goals(text) ==
    LET g0 == <<>>
        g1 == IF AnyIn(text, KwWeightLoss) THEN Append(g0, "weight loss") ELSE g0
        g2 == IF AnyIn(text, KwMuscleGain) THEN Append(g1, "muscle gain") ELSE g1
        g3 == IF AnyIn(text, KwEnergy) THEN Append(g2, "energy") ELSE g2
        g4 == IF AnyIn(text, KwGutHealth) THEN Append(g3, "gut health") ELSE g3
    IN  g4

\* reply_parts with the vegan test in front of the breakfast test
reply_parts_vegan_first(text) ==
    LET goals == detect_goals(text)
        p0 == <<FragOpening>>
        p1 == IF goals # <<>> THEN Append(p0, FragGoals(goals)) ELSE p0
        p2 == Append(p1, FragGeneral)
        p3 == IF Contains(text, KwVegan) THEN Append(p2, FragVegan) ELSE p2
        p4 == IF Contains(text, KwBreakfast) THEN Append(p3, FragBreakfast) ELSE p3
        p5 == IF Contains(text, KwMealPlan) \/ Contains(text, KwPlan)
              THEN Append(p4, FragMealPlan) ELSE p4
        p6 == Append(p5, FragClosing)
    IN  p6

\* lines 154-174: the list `parts` as the appends build it
reply_parts(text) ==
    LET goals == detect_goals(text)
        p0 == <<FragOpening>>
        p1 == IF goals # <<>> THEN Append(p0, FragGoals(goals)) ELSE p0
        p2 == Append(p1, FragGeneral)
        p3 == IF Contains(text, KwBreakfast) THEN Append(p2, FragBreakfast) ELSE p2
        p4 == IF Contains(text, KwVegan) THEN Append(p3, FragVegan) ELSE p3
        p5 == IF Contains(text, KwMealPlan) \/ Contains(text, KwPlan)
              THEN Append(p4, FragMealPlan) ELSE p4
        p6 == Append(p5, FragClosing)
    IN  p6

\* line 143: the text every test reads
normalized(text_in) == Lower(text_in)

generate_nutrition_reply(text_in) == Join(" ", reply_parts(normalized(text_in)))

-----------------------------------------------------------------------------
(* Input texts of the reply generator: up to MaxPieces pieces, concatenated *)

Pieces ==
    { <<"l", "o", "s", "e", " ", "w", "e", "i", "g", "h", "t">>,
      <<"t", "i", "r", "e", "d">>,
      <<"p", "l", "a", "n", "t", "s">>,
      <<"b", "r", "e", "a", "k", "f", "a", "s", "t">>,
      <<"v", "e", "g", "a", "n">>,
      <<"B", "U", "L", "K">>,
      <<"g", "u", "t">>,
      <<"f", "a", "t">>,
      <<" ", "l", "o", "s", "s">>,
      <<"h", "i">>,
      <<" ">>,
      <<"M", "e", "a", "l", " ", "P", "l", "a", "n">> }

RECURSIVE TextsUpTo(_)
TextsUpTo(n) ==
    IF n = 0 THEN { <<>> }
    ELSE LET shorter == TextsUpTo(n - 1)
         IN  shorter \cup { t \o p : t \in shorter, p \in Pieces }

Texts == TextsUpTo(MaxPieces)

\* state of the store and the handlers while only the generator is exercised
StoreIdle ==
    /\ db = None
    /\ message = <<>>
    /\ product = <<>>
    /\ next_oid = 1

HandlersIdle ==
    /\ pc = <<>>
    /\ request = <<>>
    /\ session_id = <<>>
    /\ reply = <<>>
    /\ products = <<>>
    /\ created = <<>>
    /\ response = <<>>

InitReply ==
    /\ StoreIdle
    /\ HandlersIdle
    /\ user_text \in Texts
    /\ parts = <<>>
    /\ result = Unset
    /\ gpc = "call"

\* one direct call of generate_nutrition_reply(user_text)
GenerateReply ==
    /\ gpc = "call"
    /\ parts' = reply_parts(normalized(user_text))
    /\ result' = generate_nutrition_reply(user_text)
    /\ gpc' = "returned"
    /\ UNCHANGED <<user_text, storeVars, handlerVars>>

NextReply == GenerateReply

SpecReply == InitReply /\ [][NextReply]_vars

-----------------------------------------------------------------------------
(* The document store behind `from database import db, create_document,     *)
(* get_documents` (src/main.py:9).  A document is a record; the store adds  *)
(* the field _id on insert.                                                 *)

Handle == <<"db">>

\* Python truthiness of an Optional[str] / of the db handle
Truthy(v) == v # None /\ v # <<>>

\* an insert either takes effect or raises; nothing in between
InsertOutcomes == {"ok", "error"}

\* create_document(collection_name, data), on success: the collection with
\* the document appended under the fresh _id `oid`; the call returns str(oid)
create_document(coll, data, oid) == Append(coll, data @@ ("_id" :> oid))

\* a filter dict matches a document when every key of the filter agrees
Matches(doc, filter_dict) ==
    \A k \in DOMAIN filter_dict : k \in DOMAIN doc /\ doc[k] = filter_dict[k]

\* the documents of a collection that match a filter, in insertion order
Find(coll, filter_dict) == SelectSeq(coll, LAMBDA d : Matches(d, filter_dict))

\* get_documents(collection_name) / get_documents(collection_name, filter_dict)
\* without a limit: every matching document
get_documents_all(coll, filter_dict) == Find(coll, filter_dict)

\* get_documents(collection_name, filter_dict, limit): the possible results.
\* The matching documents cut to `limit` when it is positive; any prefix of
\* them for a non-positive limit.
get_documents(coll, filter_dict, limit) ==
    LET found == Find(coll, filter_dict)
    IN  IF limit > 0
        THEN { SubSeq(found, 1, IF limit < Len(found) THEN limit ELSE Len(found)) }
        ELSE { SubSeq(found, 1, n) : n \in 0..Len(found) }

NoFilter == <<>>

\* str(ObjectId)
StrOid(oid) == ToString(oid)

\* `if "_id" in m: m["id"] = str(m.pop("_id"))` (lines 107-109, 213-215)
PopId(m) ==
    IF "_id" \in DOMAIN m
    THEN [k \in (DOMAIN m \ {"_id"}) \cup {"id"} |->
             IF k = "id" THEN StrOid(m["_id"]) ELSE m[k]]
    ELSE m

-----------------------------------------------------------------------------
(* POST /api/chat, src/main.py:178-205, and GET /api/messages, 208-216 *)

Req == 1..NumChat

\* request messages: empty, whitespace only, and a valid one
ChatMessages ==
    { <<>>,
      <<" ", "\t">>,
      <<" ", "g", "u", "t">> }

\* session ids a caller supplies: none, the empty string, a real one
SuppliedSessionIds == { None, <<>>, <<"s", "1">> }

ChatRequests ==
    [op : {"chat"}, message : ChatMessages, session_id : SuppliedSessionIds]

QueriedSessionIds == { <<"s", "1">> }

MessagesRequests ==
    [op : {"get_messages"}, session_id : QueriedSessionIds, limit : 0..MaxLimit]

\* os.urandom(8): byte strings the generator may return (two of the 2^64)
URandomLen == 8

URandomDraws ==
    { [i \in 1..URandomLen |-> 255],
      <<1, 35, 69, 103, 137, 171, 205, 239>> }

HexDigits ==
    <<"0", "1", "2", "3", "4", "5", "6", "7",
      "8", "9", "a", "b", "c", "d", "e", "f">>

\* bytes.hex(): two lowercase hex digits per byte
RECURSIVE Hex(_)
Hex(bytes) ==
    IF bytes = <<>> THEN <<>>
    ELSE <<HexDigits[(Head(bytes) \div 16) + 1], HexDigits[(Head(bytes) % 16) + 1]>>
         \o Hex(Tail(bytes))

\* IsBlank without the strip(): only the empty string counts as blank
IsBlank_nostrip(msg) == msg = <<>>

\* line 180: `not req.message.strip()`
IsBlank(msg) == Strip(msg) = <<>>

\* chat_session_id that ignores the supplied id
chat_session_id_always_mint(supplied, rnd) == Hex(rnd)

\* line 183: `req.session_id or os.urandom(8).hex()`
chat_session_id(supplied, rnd) ==
    IF Truthy(supplied) THEN supplied ELSE Hex(rnd)

\* StoreGuard with the None test dropped
StoreGuard_always == TRUE

\* line 186: `if db is not None`
StoreGuard == db # None

InitChat ==
    /\ db \in {None, Handle}
    /\ message = <<>>
    /\ product = <<>>
    /\ next_oid = 1
    /\ pc = [h \in Req |-> "idle"]
    /\ request = [h \in Req |-> NoRequest]
    /\ session_id = [h \in Req |-> None]
    /\ reply = [h \in Req |-> Unset]
    /\ products = [h \in Req |-> None]
    /\ created = [h \in Req |-> <<>>]
    /\ response = [h \in Req |-> NoResponse]
    /\ user_text = <<>>
    /\ parts = <<>>
    /\ result = Unset
    /\ gpc = "idle"

\* ChatRequest validation, line 23: Field(..., min_length=1) -> 422
ChatRejectSchema(h, req) ==
    /\ pc[h] = "idle"
    /\ Len(req.message) < 1
    /\ request' = [request EXCEPT ![h] = req]
    /\ response' = [response EXCEPT ![h] = [status |-> 422]]
    /\ pc' = [pc EXCEPT ![h] = "done"]
    /\ UNCHANGED <<storeVars, session_id, reply, products, created, replyVars>>

\* lines 180-181: HTTPException(400)
ChatRejectBlank(h, req) ==
    /\ pc[h] = "idle"
    /\ Len(req.message) >= 1
    /\ IsBlank(req.message)
    /\ request' = [request EXCEPT ![h] = req]
    /\ response' = [response EXCEPT ![h] = [status |-> 400]]
    /\ pc' = [pc EXCEPT ![h] = "done"]
    /\ UNCHANGED <<storeVars, session_id, reply, products, created, replyVars>>

\* lines 183-186: mint or keep the session id, compute the reply, test db
ChatBegin(h, req, rnd) ==
    /\ pc[h] = "idle"
    /\ Len(req.message) >= 1
    /\ ~IsBlank(req.message)
    /\ request' = [request EXCEPT ![h] = req]
    /\ session_id' = [session_id EXCEPT ![h] = chat_session_id(req.session_id, rnd)]
    /\ reply' = [reply EXCEPT ![h] = generate_nutrition_reply(req.message)]
    /\ pc' = [pc EXCEPT ![h] = IF StoreGuard THEN "insert_user" ELSE "return"]
    /\ UNCHANGED <<storeVars, products, created, response, replyVars>>

\* an exception that leaves the endpoint function: the caller gets a 500
Raise(h) ==
    /\ response' = [response EXCEPT ![h] = [status |-> 500]]
    /\ pc' = [pc EXCEPT ![h] = "done"]

\* ChatInsertUser that stores the reply, as the assistant, in the first insert
ChatInsertUser_reply_first(h, outcome) ==
    /\ pc[h] = "insert_user"
    /\ IF outcome = "ok"
       THEN /\ message' = create_document(message,
                              [session_id |-> session_id[h], role |-> "assistant",
                               content |-> reply[h]], next_oid)
            /\ next_oid' = next_oid + 1
            /\ created' = [created EXCEPT ![h] = Append(@, StrOid(next_oid))]
            /\ pc' = [pc EXCEPT ![h] = "insert_assistant"]
            /\ UNCHANGED response
       ELSE /\ Raise(h)
            /\ UNCHANGED <<message, next_oid, created>>
    /\ UNCHANGED <<db, product, request, session_id, reply, products, replyVars>>

\* lines 188-195: create_document("message", {user message})
ChatInsertUser(h, outcome) ==
    /\ pc[h] = "insert_user"
    /\ IF outcome = "ok"
       THEN /\ message' = create_document(message,
                              [session_id |-> session_id[h], role |-> "user",
                               content |-> request[h].message], next_oid)
            /\ next_oid' = next_oid + 1
            /\ created' = [created EXCEPT ![h] = Append(@, StrOid(next_oid))]
            /\ pc' = [pc EXCEPT ![h] = "insert_assistant"]
            /\ UNCHANGED response
       ELSE /\ Raise(h)
            /\ UNCHANGED <<message, next_oid, created>>
    /\ UNCHANGED <<db, product, request, session_id, reply, products, replyVars>>

\* ChatInsertAssistant inside a try/except that swallows the failure
ChatInsertAssistant_swallow(h, outcome) ==
    /\ pc[h] = "insert_assistant"
    /\ IF outcome = "ok"
       THEN /\ message' = create_document(message,
                              [session_id |-> session_id[h], role |-> "assistant",
                               content |-> reply[h]], next_oid)
            /\ next_oid' = next_oid + 1
            /\ created' = [created EXCEPT ![h] = Append(@, StrOid(next_oid))]
       ELSE UNCHANGED <<message, next_oid, created>>
    /\ pc' = [pc EXCEPT ![h] = "return"]
    /\ UNCHANGED <<db, product, request, session_id, reply, products, response, replyVars>>

\* lines 196-203: create_document("message", {assistant message})
ChatInsertAssistant(h, outcome) ==
    /\ pc[h] = "insert_assistant"
    /\ IF outcome = "ok"
       THEN /\ message' = create_document(message,
                              [session_id |-> session_id[h], role |-> "assistant",
                               content |-> reply[h]], next_oid)
            /\ next_oid' = next_oid + 1
            /\ created' = [created EXCEPT ![h] = Append(@, StrOid(next_oid))]
            /\ pc' = [pc EXCEPT ![h] = "return"]
            /\ UNCHANGED response
       ELSE /\ Raise(h)
            /\ UNCHANGED <<message, next_oid, created>>
    /\ UNCHANGED <<db, product, request, session_id, reply, products, replyVars>>

\* line 205: ChatResponse(reply, session_id, timestamp); the timestamp is
\* the wall clock at this step and is read by nothing, so it is left out
ChatReturn(h) ==
    /\ pc[h] = "return"
    /\ response' = [response EXCEPT ![h] =
                       [status |-> 200, reply |-> reply[h],
                        session_id |-> session_id[h]]]
    /\ pc' = [pc EXCEPT ![h] = "done"]
    /\ UNCHANGED <<storeVars, request, session_id, reply, products, created, replyVars>>

\* get_messages that queries without the session filter
get_messages_nofilter(sid, limit) ==
    IF db = None THEN { <<>> }
    ELSE { [i \in 1..Len(msgs) |-> PopId(msgs[i])] :
             msgs \in get_documents(message, NoFilter, limit) }

\* lines 210-216: the list get_messages returns
get_messages(sid, limit) ==
    IF db = None THEN { <<>> }
    ELSE { [i \in 1..Len(msgs) |-> PopId(msgs[i])] :
             msgs \in get_documents(message, [session_id |-> sid], limit) }

GetMessages(h, req) ==
    /\ pc[h] = "idle"
    /\ \E body \in get_messages(req.session_id, req.limit) :
          response' = [response EXCEPT ![h] = [status |-> 200, body |-> body]]
    /\ request' = [request EXCEPT ![h] = req]
    /\ pc' = [pc EXCEPT ![h] = "done"]
    /\ UNCHANGED <<storeVars, session_id, reply, products, created, replyVars>>

NextChat ==
    \/ \E h \in Req, req \in ChatRequests : ChatRejectSchema(h, req)
    \/ \E h \in Req, req \in ChatRequests : ChatRejectBlank(h, req)
    \/ \E h \in Req, req \in ChatRequests, rnd \in URandomDraws : ChatBegin(h, req, rnd)
    \/ \E h \in Req, outcome \in InsertOutcomes : ChatInsertUser(h, outcome)
    \/ \E h \in Req, outcome \in InsertOutcomes : ChatInsertAssistant(h, outcome)
    \/ \E h \in Req : ChatReturn(h)
    \/ \E h \in Req, req \in MessagesRequests : GetMessages(h, req)

SpecChat == InitChat /\ [][NextChat]_vars

-----------------------------------------------------------------------------
(* Properties of the chat and messages handlers, checked under SpecChat *)

ChatDone(h) == pc[h] = "done" /\ request[h].op = "chat"

Succeeded(h) == ChatDone(h) /\ response[h].status = 200

Failed500(h) == ChatDone(h) /\ response[h].status = 500

\* position in the message log of the document whose _id prints as `id`
PosOf(id) == CHOOSE i \in 1..Len(message) : StrOid(message[i]["_id"]) = id

\* the documents of the message log that handler h inserted, in log order
MessagesOf(h) ==
    SelectSeq(message,
              LAMBDA d : \E j \in 1..Len(created[h]) : created[h][j] = StrOid(d["_id"]))

AllWhitespace(msg) == \A i \in 1..Len(msg) : msg[i] \in Whitespace

HexChars ==
    {"0", "1", "2", "3", "4", "5", "6", "7", "8", "9", "a", "b", "c", "d", "e", "f"}

IsHex16(s) == Len(s) = 16 /\ \A i \in 1..Len(s) : s[i] \in HexChars

\* C1: a chat turn that returned 200 has inserted exactly two documents when
\* the store is available: first {session_id, role "user", content = the
\* request message}, then {the same session_id, role "assistant", content =
\* the reply returned (the generated one)}; with the store unavailable it has
\* inserted none and the log is empty.  It never leaves exactly one.
C1_TurnAppendsPairOrNothing ==
    \A h \in Req :
        Succeeded(h) =>
            LET mine == MessagesOf(h)
            IN  /\ Len(mine) # 1
                /\ Len(mine) = Len(created[h])
                /\ IF db # None
                   THEN /\ Len(mine) = 2
                        /\ mine[1].role = "user"
                        /\ mine[1].content = request[h].message
                        /\ mine[1].session_id = response[h].session_id
                        /\ mine[2].role = "assistant"
                        /\ mine[2].content = response[h].reply
                        /\ mine[2].session_id = mine[1].session_id
                        /\ response[h].reply = generate_nutrition_reply(request[h].message)
                   ELSE /\ mine = <<>>
                        /\ message = <<>>

\* a turn returned 200 with its pair stored while another turn, whose second
\* insert raised, left a single message and did not succeed
C1_Witness ==
    \E h, g \in Req :
        /\ Succeeded(h) /\ db # None /\ Len(MessagesOf(h)) = 2
        /\ Failed500(g) /\ Len(MessagesOf(g)) = 1

\* C2: with db None, a chat request with a non-blank message never raises: it
\* is on its way to the return statement or has returned 200 with the
\* generated reply and a non-empty session id; nothing is stored.
C2_UnavailableStoreStillReplies ==
    \A h \in Req :
        (db = None /\ request[h].op = "chat" /\ ~AllWhitespace(request[h].message)) =>
            /\ pc[h] \in {"return", "done"}
            /\ created[h] = <<>>
            /\ message = <<>>
            /\ pc[h] = "done" =>
                 /\ response[h].status = 200
                 /\ response[h].reply = generate_nutrition_reply(request[h].message)
                 /\ response[h].session_id # None
                 /\ response[h].session_id # <<>>

C2_Witness ==
    \E h \in Req :
        /\ db = None /\ ChatDone(h) /\ ~AllWhitespace(request[h].message)
        /\ response[h].status = 200
        /\ IsHex16(response[h].session_id)

\* C3: a chat request whose message is empty or whitespace-only ends with a
\* 4xx response, with the reply never generated, no session id minted and no
\* document inserted; no stored user message is blank.
C3_BlankMessageRejected ==
    /\ \A h \in Req :
          (request[h].op = "chat" /\ AllWhitespace(request[h].message)) =>
              /\ pc[h] = "done"
              /\ response[h].status \in 400..499
              /\ reply[h] = Unset
              /\ session_id[h] = None
              /\ created[h] = <<>>
    /\ \A i \in 1..Len(message) :
          message[i].role = "user" => ~AllWhitespace(message[i].content)

\* a whitespace-only request was rejected with 400 while the log holds another
\* turn's messages
C3_Witness ==
    \E h \in Req :
        /\ ChatDone(h) /\ request[h].message # <<>> /\ AllWhitespace(request[h].message)
        /\ response[h].status = 400
        /\ Len(message) = 2

\* C4 as stated: the response echoes every supplied session id, and mints a
\* 16-hex-character one only when none was supplied.
C4_EchoesEverySuppliedId ==
    \A h \in Req :
        Succeeded(h) =>
            IF request[h].session_id # None
            THEN response[h].session_id = request[h].session_id
            ELSE IsHex16(response[h].session_id)

\* C4, amended: the response echoes a supplied non-empty session id; when none
\* or the empty string was supplied it carries a newly minted
\* 16-hex-character id; the documents the turn inserted carry the id of the
\* response.
C4_EchoesNonEmptyId ==
    \A h \in Req :
        Succeeded(h) =>
            /\ IF request[h].session_id # None /\ request[h].session_id # <<>>
               THEN response[h].session_id = request[h].session_id
               ELSE IsHex16(response[h].session_id)
            /\ \A j \in 1..Len(created[h]) :
                  message[PosOf(created[h][j])].session_id = response[h].session_id

\* the caller supplied the empty string and got a minted id, stored with both
\* messages
C4_Witness ==
    \E h \in Req :
        /\ Succeeded(h)
        /\ request[h].session_id = <<>>
        /\ IsHex16(response[h].session_id)
        /\ Len(created[h]) = 2

\* C5 as stated: a chat turn fails towards the caller only for invalid input
\* (422 / 400); a failing insert is absorbed and the turn still returns 200.
C5_StoreFailuresAbsorbed ==
    \A h \in Req :
        ChatDone(h) =>
            \/ response[h].status = 200
            \/ /\ response[h].status \in {400, 422}
               /\ AllWhitespace(request[h].message)

\* C6: a get_messages call with a positive limit answers 200 with at most
\* `limit` entries, each the image of a stored document of the requested
\* session, in log order; the body is empty when db is None or the session has
\* no document; the message log is left as it was.
C6_GetMessages ==
    [][ \A h \in Req :
          (pc[h] = "idle" /\ pc'[h] = "done" /\ request'[h].op = "get_messages"
           /\ request'[h].limit > 0) =>
              LET body == response'[h].body
                  sid == request'[h].session_id
              IN  /\ response'[h].status = 200
                  /\ message' = message
                  /\ Len(body) <= request'[h].limit
                  /\ \A i \in 1..Len(body) :
                        /\ body[i].session_id = sid
                        /\ "_id" \notin DOMAIN body[i]
                        /\ \E k \in 1..Len(message) :
                              /\ StrOid(message[k]["_id"]) = body[i].id
                              /\ message[k].session_id = sid
                              /\ message[k].role = body[i].role
                              /\ message[k].content = body[i].content
                  /\ \A i, j \in 1..Len(body) :
                        i < j => PosOf(body[i].id) < PosOf(body[j].id)
                  /\ (db = None \/ \A k \in 1..Len(message) : message[k].session_id # sid)
                        => body = <<>>
      ]_vars

\* a call with limit 1 returned one entry of a session that holds two
\* documents, next to a document of another session
C6_Witness ==
    \E h \in Req :
        /\ pc[h] = "done" /\ request[h].op = "get_messages" /\ request[h].limit = 1
        /\ Len(response[h].body) = 1
        /\ Len(Find(message, [session_id |-> request[h].session_id])) = 2

\* C9: with the store available, whatever the interleaving, the first
\* document a turn inserts is its user message and the second, later in the
\* log, its assistant message; once every handler is done each session's log
\* holds two documents for each turn that returned, plus the lone user message
\* of each turn whose assistant insert raised.
C9_PairPerTurnUnderInterleaving ==
    db # None =>
        /\ \A h \in Req :
              /\ Len(created[h]) <= 2
              /\ Len(created[h]) >= 1 =>
                    /\ message[PosOf(created[h][1])].role = "user"
                    /\ message[PosOf(created[h][1])].content = request[h].message
              /\ Len(created[h]) = 2 =>
                    /\ PosOf(created[h][1]) < PosOf(created[h][2])
                    /\ message[PosOf(created[h][2])].role = "assistant"
                    /\ message[PosOf(created[h][2])].content = reply[h]
        /\ (\A h \in Req : pc[h] = "done") =>
              \A sid \in {message[i].session_id : i \in 1..Len(message)}
                         \cup {session_id[h] : h \in Req} :
                 Len(Find(message, [session_id |-> sid]))
                    = 2 * Cardinality({h \in Req : Succeeded(h) /\ session_id[h] = sid})
                      + Cardinality({h \in Req : Failed500(h) /\ session_id[h] = sid
                                                  /\ Len(created[h]) = 1})

\* two turns of one session both returned and their inserts interleaved: the
\* log reads user, user, assistant, assistant
C9_Witness ==
    /\ \A h \in Req : Succeeded(h) /\ session_id[h] = <<"s", "1">>
    /\ Len(message) >= 4
    /\ message[1].role = "user" /\ message[2].role = "user"
    /\ message[3].role = "assistant"

-----------------------------------------------------------------------------
(* GET /api/products, src/main.py:72-110 *)

Lst == 1..NumList

\* lines 77-102: the list `seed`
SeedProducts ==
    << [title |-> "Personalized Meal Plan",
        description |-> "A 4-week tailored plan based on your goals and preferences.",
        price |-> 49,
        category |-> "plans",
        in_stock |-> TRUE,
        image |-> "https://images.unsplash.com/photo-1543353071-087092ec393a?w=1200&q=80&auto=format&fit=crop"],
       [title |-> "1:1 Nutrition Coaching (60 min)",
        description |-> "Work directly with our AI-guided nutritionist and human expert.",
        price |-> 89,
        category |-> "coaching",
        in_stock |-> TRUE,
        image |-> "https://images.unsplash.com/photo-1512621776951-a57141f2eefd?w=1200&q=80&auto=format&fit=crop"],
       [title |-> "Grocery List Optimizer",
        description |-> "Weekly optimized grocery list aligned to macros and budget.",
        price |-> 15,
        category |-> "tools",
        in_stock |-> TRUE,
        image |-> "https://images.unsplash.com/photo-1511690656952-34342bb7c2f2?w=1200&q=80&auto=format&fit=crop"] >>

\* a product that is in the collection before the first call
ExistingProduct ==
    [title |-> "Existing", description |-> "", price |-> 1,
     category |-> "tools", in_stock |-> TRUE, image |-> ""]

InitProducts ==
    /\ db \in {None, Handle}
    /\ message = <<>>
    /\ \/ product = <<>> /\ next_oid = 1
       \/ /\ db # None
          /\ product = create_document(<<>>, ExistingProduct, 1)
          /\ next_oid = 2
    /\ pc = [h \in Lst |-> "idle"]
    /\ request = [h \in Lst |-> NoRequest]
    /\ session_id = [h \in Lst |-> None]
    /\ reply = [h \in Lst |-> Unset]
    /\ products = [h \in Lst |-> None]
    /\ created = [h \in Lst |-> <<>>]
    /\ response = [h \in Lst |-> NoResponse]
    /\ user_text = <<>>
    /\ parts = <<>>
    /\ result = Unset
    /\ gpc = "idle"

\* line 75: `get_documents("product") if db else []`
list_products_read == IF Truthy(db) THEN get_documents_all(product, NoFilter) ELSE <<>>

\* line 76: `if not products and db is not None`
list_products_must_seed(found) == Len(found) = 0 /\ db # None

\* lines 75-76
LPRead(h) ==
    /\ pc[h] = "idle"
    /\ request' = [request EXCEPT ![h] = [op |-> "list_products"]]
    /\ products' = [products EXCEPT ![h] = list_products_read]
    /\ pc' = [pc EXCEPT ![h] =
                 IF list_products_must_seed(list_products_read) THEN "seed" ELSE "return"]
    /\ UNCHANGED <<storeVars, session_id, reply, created, response, replyVars>>

\* lines 103-104: one turn of `for p in seed: create_document("product", p)`;
\* the loop stands at the seed after those this call has created
LPSeed(h, outcome) ==
    /\ pc[h] = "seed"
    /\ LET i == Len(created[h]) + 1
       IN  IF outcome = "ok"
           THEN /\ product' = create_document(product, SeedProducts[i], next_oid)
                /\ next_oid' = next_oid + 1
                /\ created' = [created EXCEPT ![h] = Append(@, StrOid(next_oid))]
                /\ pc' = [pc EXCEPT ![h] =
                             IF i = Len(SeedProducts) THEN "reread" ELSE "seed"]
                /\ UNCHANGED response
           ELSE /\ Raise(h)
                /\ UNCHANGED <<product, next_oid, created>>
    /\ UNCHANGED <<db, message, request, session_id, reply, products, replyVars>>

\* line 105: `products = get_documents("product")`
LPReread(h) ==
    /\ pc[h] = "reread"
    /\ products' = [products EXCEPT ![h] = get_documents_all(product, NoFilter)]
    /\ pc' = [pc EXCEPT ![h] = "return"]
    /\ UNCHANGED <<storeVars, request, session_id, reply, created, response, replyVars>>

\* lines 107-110: rename _id to id in every entry and return the list
LPReturn(h) ==
    /\ pc[h] = "return"
    /\ response' = [response EXCEPT ![h] =
                       [status |-> 200,
                        body |-> [i \in 1..Len(products[h]) |-> PopId(products[h][i])]]]
    /\ pc' = [pc EXCEPT ![h] = "done"]
    /\ UNCHANGED <<storeVars, request, session_id, reply, products, created, replyVars>>

NextProducts ==
    \/ \E h \in Lst : LPRead(h)
    \/ \E h \in Lst, outcome \in InsertOutcomes : LPSeed(h, outcome)
    \/ \E h \in Lst : LPReread(h)
    \/ \E h \in Lst : LPReturn(h)

SpecProducts == InitProducts /\ [][NextProducts]_vars

\* the collection without the _id fields
ProductData ==
    [i \in 1..Len(product) |-> [k \in DOMAIN product[i] \ {"_id"} |-> product[i][k]]]

\* C10 as stated: once every list_products call has returned, a collection
\* that started empty on an available store holds exactly the three seed
\* products; calls on a non-empty collection or without a store insert nothing.
C10_SeedsAtMostOnce ==
    (\A h \in Lst : pc[h] = "done" /\ response[h].status = 200) =>
        /\ db = None => product = <<>>
        /\ (db # None /\ product # <<>> /\ ProductData[1] = ExistingProduct)
              => ProductData = <<ExistingProduct>>
        /\ (db # None /\ (product = <<>> \/ ProductData[1] # ExistingProduct))
              => ProductData = SeedProducts

-----------------------------------------------------------------------------
(* Properties of generate_nutrition_reply, checked under SpecReply *)

\* k occurs in text at some offset
Occurs(k, text) ==
    \E off \in 0..(Len(text) - Len(k)) : \A j \in 1..Len(k) : text[off + j] = k[j]

GoalTable ==
    << [label |-> "weight loss", keywords |-> KwWeightLoss],
       [label |-> "muscle gain", keywords |-> KwMuscleGain],
       [label |-> "energy", keywords |-> KwEnergy],
       [label |-> "gut health", keywords |-> KwGutHealth] >>

GoalMatched(g, text) ==
    \E n \in 1..Len(g.keywords) : Occurs(g.keywords[n], Lower(text))

\* the labels of the matched goals, in table order
ExpectedGoals(text) ==
    LET hit == SelectSeq(GoalTable, LAMBDA g : GoalMatched(g, text))
    IN  [i \in 1..Len(hit) |-> hit[i].label]

GoalLabels == {GoalTable[i].label : i \in 1..Len(GoalTable)}

\* every goal fragment the template could render from one to four labels
AnyGoalFragment ==
    UNION { { FragGoals(l) : l \in [1..n -> GoalLabels] } : n \in 1..Len(GoalTable) }

TiredLoseWeight ==
    <<"t", "i", "r", "e", "d">> \o <<"l", "o", "s", "e", " ", "w", "e", "i", "g", "h", "t">>

\* C7: the reply has a goal fragment iff some goal keyword occurs in the
\* lowercased input; it is the second fragment, the only goal fragment, and
\* names exactly the matched goals, once each, in declaration order ("tired"
\* before "lose weight" gives "weight loss, energy").
C7_GoalsInDeclarationOrder ==
    gpc = "returned" =>
        LET expected == ExpectedGoals(user_text)
            at == {i \in 1..Len(parts) : parts[i] \in AnyGoalFragment}
        IN  /\ expected = <<>> => at = {}
            /\ expected # <<>> =>
                  /\ at = {2}
                  /\ parts[2] = "I detect goals around " \o Join(", ", expected) \o "."
            /\ user_text = TiredLoseWeight =>
                  parts[2] = "I detect goals around weight loss, energy."

C7_Witness ==
    /\ gpc = "returned"
    /\ user_text = TiredLoseWeight
    /\ parts[2] = "I detect goals around weight loss, energy."

VeganBreakfast ==
    <<"v", "e", "g", "a", "n">> \o <<"b", "r", "e", "a", "k", "f", "a", "s", "t">>

\* the reply text with each optional fragment switched on or off
Rendered(goalFrag, hasGoal, hasBreakfast, hasVegan, hasPlan) ==
    FragOpening
    \o (IF hasGoal THEN " " \o goalFrag ELSE "")
    \o " " \o FragGeneral
    \o (IF hasBreakfast THEN " " \o FragBreakfast ELSE "")
    \o (IF hasVegan THEN " " \o FragVegan ELSE "")
    \o (IF hasPlan THEN " " \o FragMealPlan ELSE "")
    \o " " \o FragClosing

\* C8: the reply is opening, [goal], general guidance, [breakfast], [vegan],
\* [meal-plan offer], closing, separated by single spaces, an optional
\* fragment being present iff its trigger occurs in the lowercased input
\* ("plan" also inside "plants"); with no keyword it is the three fixed
\* fragments.
C8_ReplyIsOrderedJoin ==
    gpc = "returned" =>
        LET text == Lower(user_text)
            hasGoal == ExpectedGoals(user_text) # <<>>
            hasBreakfast == Occurs(KwBreakfast, text)
            hasVegan == Occurs(KwVegan, text)
            hasPlan == Occurs(KwPlan, text)
        IN  /\ result = Rendered(FragGoals(ExpectedGoals(user_text)),
                                 hasGoal, hasBreakfast, hasVegan, hasPlan)
            /\ (~hasGoal /\ ~hasBreakfast /\ ~hasVegan /\ ~hasPlan) =>
                  result = FragOpening \o " " \o FragGeneral \o " " \o FragClosing
            /\ user_text = <<"p", "l", "a", "n", "t", "s">> =>
                  result = FragOpening \o " " \o FragGeneral \o " " \o FragMealPlan
                           \o " " \o FragClosing

\* "vegan" before "breakfast" in the input: the breakfast fragment still
\* comes first
C8_Witness ==
    /\ gpc = "returned"
    /\ user_text = VeganBreakfast
    /\ parts = <<FragOpening, FragGeneral, FragBreakfast, FragVegan, FragClosing>>
    /\ result = Join(" ", parts)

=============================================================================
